---- MODULE Spec2Model ----
(***************************************************************************)
(* A model of the WarpX per-step update cycle (particle deposition, field  *)
(* update, PML damping factors, PSATD coefficients), of the embedded       *)
(* boundary particle scraper, of the QED functors and of routines of the   *)
(* collision, diagnostics and laser code.                                  *)
(*                                                                         *)
(* Five specifications share the module:                                   *)
(*   Spec      the step cycle: PML / PSATD state, the OpenMP regions of    *)
(*             the particle containers, field update and halo exchange;    *)
(*   SpecAbort the step cycle with its fatal errors;                       *)
(*   SpecEB    scrapeParticlesAtEB with the NoOp and Absorb callbacks;     *)
(*   SpecQED   the PairGeneration filter / transform pass;                 *)
(*   SpecCall  one call of a routine, from any of its initial states: the  *)
(*             photon emission pass with cleanLowEnergyPhotons,            *)
(*             SplitAndScatterFunc, ElasticCollisionPerez, the diagnostic  *)
(*             filters, the constructor of LaserParticleContainer, the     *)
(*             update of E in the PML shell.                               *)
(***************************************************************************)
EXTENDS Integers, Sequences, FiniteSets, TLC

(***************************************************************************)
(* Bounds of the model.                                                    *)
(***************************************************************************)
NThreads == 2       \* OpenMP threads of a parallel region
NTiles   == 2       \* tiles (boxes) of the level
TileW    == 2       \* cells per tile
MaxStep  == 3       \* steps of a run
NDt      == 2       \* distinct timestep values
MaxDisp  == 1       \* guard width: largest distance of an antenna particle from its site

Threads == 1..NThreads
Tiles   == 1..NTiles
DtVals  == 1..NDt
NCell   == NTiles * TileW
Cells   == 0..(NCell - 1)       \* cells, and the edges (J) that span them
Nodes   == 0..NCell             \* nodes (rho)

(***************************************************************************)
(* State.                                                                  *)
(***************************************************************************)
VARIABLES
    \* ---- step cycle
    dt,         \* the current timestep
    istep,      \* number of completed steps
    phase,      \* position of the step cycle
    solver,     \* "FDTD" or "PSATD", fixed at configuration
    sigba,      \* PML: sigba_fp / sigba_cp, each a MultiSigmaBox
    psatd,      \* PsatdAlgorithmJLinearInTime: m_dt and the coefficients
    fieldGen,   \* per box: number of field updates its valid cells hold
    haloGen,    \* per box: number of field updates its guard cells hold
    lx,         \* antenna particles: position (cell) in the particle tile
    uxp,        \* antenna particles: velocity attribute (cells per step)
    thr,        \* per thread: op about to be run and tile it works on
    m_xp,       \* per thread slot: temporary copy of the positions
    local_rho,  \* per thread slot: thread-local charge buffer
    local_jx,   \* per thread slot: thread-local current buffer
    rho,        \* shared charge array, components 0 (old) and 1 (new)
    jx,         \* shared current array
    do_rho,     \* whether Evolve was handed a rho array
    amp,        \* the laser amplitude of the step
    hist,       \* observations of the run (what an update / push / gather used)
    \* ---- embedded boundary scraper
    pcl,        \* particles of the container: level, idcpu, position, momentum
    phi,        \* signed distance function, per level and node
    scr,        \* the scrapeParticlesAtEB call in progress
    \* ---- QED pair generation
    pho,        \* photons of the source tile: idcpu, optical depth, momentum
    prod,       \* the two product tiles (electrons, positrons)
    qed,        \* the filter / transform pass in progress
    \* ---- routines checked one call at a time
    call        \* the routine called, its arguments, its locals and its position

stepVars == <<dt, istep, phase, solver, sigba, psatd, fieldGen, haloGen, lx, uxp,
              thr, m_xp, local_rho, local_jx, rho, jx, do_rho, amp, hist>>
ebVars   == <<pcl, phi, scr>>
qedVars  == <<pho, prod, qed>>
vars     == <<stepVars, ebVars, qedVars, call>>
otherVars == <<ebVars, qedVars, call>>     \* what the step cycle leaves alone

(***************************************************************************)
(* PML damping factors: MultiSigmaBox keeps the timestep its B and E       *)
(* factors were last computed for, and starts with a value no timestep     *)
(* equals.                                                                 *)
(***************************************************************************)
NoDt == 0                       \* factor arrays allocated, never computed

DtSentinelReused == NDt             \* a value that a timestep can take
DtSentinel == -1000000000
    \* dt_B = dt_E = -1.e10, negative and far from every timestep (kept within 32 bits here)

Regions == {"fp", "cp"}

\* MultiSigmaBox::MultiSigmaBox: the sigma profiles are set, the factors are not.
MultiSigmaBoxInit ==
    [dt_B |-> DtSentinel, dt_E |-> DtSentinel, facB |-> NoDt, facE |-> NoDt]

\* MultiSigmaBox::ComputePMLFactorsB: recompute unless dt is the cached one.
MultiSigmaBox_ComputePMLFactorsB(s, d) ==
    IF d = s.dt_B THEN s ELSE [s EXCEPT !.dt_B = d, !.facB = d]

\* MultiSigmaBox::ComputePMLFactorsE
MultiSigmaBox_ComputePMLFactorsE(s, d) ==
    IF d = s.dt_E THEN s ELSE [s EXCEPT !.dt_E = d, !.facE = d]

\* PML::ComputePMLFactors(dt): both patches, B then E.
PML_ComputePMLFactors(sb, d) ==
    [r \in Regions |->
        MultiSigmaBox_ComputePMLFactorsE(MultiSigmaBox_ComputePMLFactorsB(sb[r], d), d)]

\* The state of a PML region in the terms of the state machine of the design.
FactorsValid(s, d) == s.dt_B = d /\ s.dt_E = d /\ s.facB = d /\ s.facE = d

(***************************************************************************)
(* PSATD coefficients.  A coefficient array is a function of the timestep  *)
(* (trigonometric in k c dt); the model keeps, for each array, a number    *)
(* that differs for different timesteps.                                   *)
(***************************************************************************)
CoefFor(d) == [C_coef |-> 2 * d + 1, S_ck_coef |-> 3 * d, X1_coef |-> d * d]

\* InitializeSpectralCoefficients(spectral_kspace, dm, dt)
InitializeSpectralCoefficients(a, d) == [a EXCEPT !.coef = CoefFor(d)]

\* The constructor stores dt and initializes the coefficients.
PsatdConstruct(d) == InitializeSpectralCoefficients([m_dt |-> d, coef |-> CoefFor(NoDt)], d)

\* pushSpectralFields is a const member: the algorithm object is what it was.
PushLeavesOverwritten(a) == [a EXCEPT !.coef = CoefFor(NoDt)]
pushSpectralFields_this(a) == a


(***************************************************************************)
(* Geometry of the level: tiles, their grown boxes, neighbours.            *)
(***************************************************************************)
TileLo(k) == (k - 1) * TileW
TileHi(k) == k * TileW - 1

Min(S) == CHOOSE x \in S : \A y \in S : x <= y

\* Nodes (edges) of the thread-local buffer of tile k: the tile box grown by the guard width.
BoxNodes(k) == {n \in Nodes : TileLo(k) - MaxDisp <= n /\ n <= TileHi(k) + 1 + MaxDisp}
BoxEdges(k) == {e \in Cells : TileLo(k) - MaxDisp <= e /\ e <= TileHi(k) + MaxDisp}

Nbrs(k) == {j \in Tiles : j = k - 1 \/ j = k + 1}

\* The tiles a thread iterates over: MFIter hands each thread a contiguous share.
TilesOf(t) == {k \in Tiles : ((k - 1) * NThreads) \div NTiles + 1 = t}

\* The thread-local slot a thread uses: omp_get_thread_num().
ThreadNumSerial(t) == 0
ThreadNum(t) == t - 1

Slots == 0..(NThreads - 1)

ZeroNodes == [n \in Nodes |-> 0]
ZeroEdges == [e \in Cells |-> 0]

(***************************************************************************)
(* Particles.  The antenna holds, per site, two particles of opposite      *)
(* weight (InitData pushes weight and -weight at each position); a site    *)
(* per tile.  The plasma species holds one particle per tile.              *)
(***************************************************************************)
NpTile == 2                                  \* for (int k = 0; k<2; ++k)
LParts == 1..(NpTile * NTiles)
LIndex(k, i) == NpTile * (k - 1) + i         \* particle i of tile k
LW(p) == IF p % 2 = 1 THEN 1 ELSE -1         \* particle_w: weight, -weight
Site(k) == IF k = NTiles THEN TileLo(k) ELSE TileHi(k)
LTile(p) == (p + 1) \div NpTile

PSite(k) == TileLo(k)
\* plasma particle of tile k in step n: it oscillates between two cells of its tile
PVel(n) == IF n % 2 = 0 THEN 1 ELSE -1
POld(k, n) == PSite(k) + (n % 2)
PNew(k, n) == POld(k, n) + PVel(n)

(***************************************************************************)
(* Deposition kernels on the one-dimensional grid: a particle in cell x    *)
(* carries its weight on the nodes x and x+1; a particle that moved by d   *)
(* cells carried its weight through the edges it crossed.                  *)
(***************************************************************************)
RECURSIVE SumOver(_, _)
SumOver(f, S) == IF S = {} THEN 0
                 ELSE LET x == CHOOSE y \in S : TRUE IN f[x] + SumOver(f, S \ {x})

ChargeOf(w, x, n) == IF n = x \/ n = x + 1 THEN w ELSE 0

CurrentOfNewCell(w, xnew, d, e) ==
    IF d # 0 /\ (e = xnew \/ e = xnew + 1) THEN w * d ELSE 0
CurrentOf(w, xnew, d, e) ==
    LET xold == xnew - d
        lo   == IF xold < xnew THEN xold ELSE xnew
    IN IF d # 0 /\ (e = lo \/ e = lo + 1) THEN w * d ELSE 0

\* charge deposition of the particles of tile k at the positions xs
DepositChargeKernel(k, xs) ==
    [n \in Nodes |-> SumOver([i \in 1..NpTile |-> ChargeOf(LW(LIndex(k, i)), xs[i], n)], 1..NpTile)]

\* current deposition of the particles of tile k at the (post-push) positions xs
DepositCurrentKernel(k, xs, u) ==
    [e \in Cells |->
        SumOver([i \in 1..NpTile |-> CurrentOf(LW(LIndex(k, i)), xs[i], u[LIndex(k, i)], e)],
                1..NpTile)]

\* FArrayBox::atomicAdd(local, tbx, ...): add the buffer into the shared array over the box
AtomicAdd(shared, buf, box) ==
    [n \in DOMAIN shared |-> IF n \in box THEN shared[n] + buf[n] ELSE shared[n]]

\* the plasma species' contributions of tile k in step n
PhysCurrent(k, n) == [e \in Cells |-> CurrentOf(1, PNew(k, n), PVel(n), e)]
PhysCharge(k, x)  == [m \in Nodes |-> ChargeOf(1, x, m)]

(***************************************************************************)
(* Threads of a parallel region.                                           *)
(***************************************************************************)
Idle == [pc |-> "done", tile |-> 0]

NextTiles(t, k) == {j \in TilesOf(t) : j > k}

\* the thread's position once it has finished tile k: its next tile, or the end of its loop
FinishTile(t, k, first) ==
    IF NextTiles(t, k) = {} THEN Idle
    ELSE [pc |-> first, tile |-> Min(NextTiles(t, k))]

\* entry of a parallel region: every thread that is free starts its share of the tiles
StartRegion(first) ==
    [t \in Threads |-> IF thr[t].pc = "done" THEN FinishTile(t, 0, first) ELSE thr[t]]

\* end of a parallel region: the implicit barrier, all threads have finished their loop
AnyThreadDone == \E t \in Threads : thr[t].pc = "done"
RegionJoined == \A t \in Threads : thr[t].pc = "done"

Goto(t, pc) == [thr EXCEPT ![t].pc = pc]


(***************************************************************************)
(* What the operations of a thread read and write of the shared grid.      *)
(*   <<"EBv", k>>  valid cells of E/B of box k    <<"J", e>>    edge e of J *)
(*   <<"EBg", k>>  guard cells of E/B of box k    <<"rho", n>>  node n      *)
(***************************************************************************)
Reads(t) ==
    LET k == thr[t].tile IN
    CASE thr[t].pc = "gather" -> {<<"EBv", k>>, <<"EBg", k>>}
      [] thr[t].pc = "update" -> {<<"EBv", k>>, <<"EBg", k>>}
                                 \cup {<<"J", e>> : e \in BoxEdges(k)}
      [] thr[t].pc = "fill"   -> {<<"EBv", j>> : j \in Nbrs(k)}
      [] OTHER -> {}

Writes(t) ==
    LET k == thr[t].tile IN
    CASE thr[t].pc = "pushdep" -> {<<"J", e>> : e \in BoxEdges(k)}
                                  \cup {<<"rho", n>> : n \in BoxNodes(k)}
      [] thr[t].pc \in {"accrho0", "accrho1"} -> {<<"rho", n>> : n \in BoxNodes(k)}
      [] thr[t].pc = "accJ"   -> {<<"J", e>> : e \in BoxEdges(k)}
      [] thr[t].pc = "update" -> {<<"EBv", k>>}
      [] thr[t].pc = "fill"   -> {<<"EBg", k>>}
      [] OTHER -> {}

(***************************************************************************)
(* Initial state of the step cycle: nothing constructed, fresh halo data.  *)
(***************************************************************************)
\* the depositions a step performs: <<what, tile>>
AllDeps(r) ==
    {<<w, k>> : w \in {"phys", "J"} \cup (IF r THEN {"rho0", "rho1"} ELSE {}), k \in Tiles}

HistInit ==
    [\* depositions of the step that were added to the shared arrays
     dep  |-> {},
     \* last gather of a tile: by how many updates its valid / guard data lagged the step
     gath |-> [k \in Tiles |-> [done |-> FALSE, fieldLag |-> 0, haloLag |-> 0]],
     \* last field update of a box: the depositions of the step still missing at its start
     upd  |-> [k \in Tiles |-> [done |-> FALSE, missing |-> {}]],
     \* last PML update: per region, whether its factors were those of the current dt
     pml  |-> [done |-> FALSE, afterChange |-> FALSE, valid |-> [r \in Regions |-> FALSE]],
     \* last spectral push: whether the coefficients were those of the current dt
     push |-> [done |-> FALSE, afterChange |-> FALSE, current |-> FALSE],
     \* whether the step in progress started with a change of dt
     changed |-> FALSE]

StepStart ==
    /\ istep = 0
    /\ phase = "construct"
    /\ sigba = [r \in Regions |-> [dt_B |-> NoDt, dt_E |-> NoDt, facB |-> NoDt, facE |-> NoDt]]
    /\ psatd = [m_dt |-> NoDt, coef |-> CoefFor(NoDt)]
    /\ fieldGen = [k \in Tiles |-> 0]
    /\ haloGen = [k \in Tiles |-> 0]
    /\ lx = [p \in LParts |-> Site(LTile(p))]
    /\ uxp = [p \in LParts |-> 0]
    /\ thr = [t \in Threads |-> Idle]
    /\ m_xp = [s \in Slots |-> [i \in 1..NpTile |-> 0]]
    /\ local_rho = [s \in Slots |-> ZeroNodes]
    /\ local_jx = [s \in Slots |-> ZeroEdges]
    /\ rho = [c \in 0..1 |-> ZeroNodes]
    /\ jx = ZeroEdges
    /\ do_rho = FALSE
    /\ amp = 0
    /\ hist = HistInit

StepInit == dt \in DtVals /\ solver \in {"FDTD", "PSATD"} /\ StepStart

\* the step cycle at rest, for the specifications of the other components
StepIdle == dt = Min(DtVals) /\ solver = "FDTD" /\ StepStart

(***************************************************************************)
(* The driver: construction, timestep-dependent setup, start of a step.    *)
(***************************************************************************)
particleVars == <<lx, uxp, m_xp, local_rho, local_jx, rho, jx, do_rho, amp>>
fieldVars    == <<fieldGen, haloGen>>

\* construction of the PML and of the spectral algorithm for the initial dt
Construct ==
    /\ phase = "construct"
    /\ sigba' = [r \in Regions |-> MultiSigmaBoxInit]
    /\ psatd' = PsatdConstruct(dt)
    /\ phase' = "factors"
    /\ UNCHANGED <<dt, istep, solver, thr, hist, particleVars, fieldVars>>
    /\ UNCHANGED otherVars

\* PML::ComputePMLFactors(dt), called before the first step and after a change of dt
ComputePMLFactors ==
    /\ phase = "factors"
    /\ sigba' = PML_ComputePMLFactors(sigba, dt)
    /\ phase' = IF solver = "PSATD" THEN "coefs" ELSE "begin"
    /\ UNCHANGED <<dt, istep, solver, psatd, thr, hist, particleVars, fieldVars>>
    /\ UNCHANGED otherVars

\* the coefficients are recomputed when the timestep is not the one they were made for
UpdateSpectralCoefficients ==
    /\ phase = "coefs"
    /\ psatd' = IF psatd.m_dt = dt THEN psatd
                ELSE InitializeSpectralCoefficients([psatd EXCEPT !.m_dt = dt], dt)
    /\ phase' = "begin"
    /\ UNCHANGED <<dt, istep, solver, sigba, thr, hist, particleVars, fieldVars>>
    /\ UNCHANGED otherVars

\* the laser amplitude at the time of step n, scaled to cells per step: the antenna
\* particles oscillate about their site and stay within one cell of it
LaserAmplitude(n) ==
    CASE n % 4 = 0 -> 1
      [] n % 4 = 2 -> -1
      [] OTHER -> 0

\* start of a step: the deposition arrays are cleared and the plasma species evolves
BeginStep ==
    /\ phase = "begin"
    /\ istep < MaxStep
    /\ do_rho' \in BOOLEAN
    /\ amp' = LaserAmplitude(istep)
    /\ rho' = [c \in 0..1 |-> ZeroNodes]
    /\ jx' = ZeroEdges
    /\ UNCHANGED hist
    /\ phase' = "phys"
    /\ thr' = StartRegion("gather")
    /\ UNCHANGED <<dt, istep, solver, sigba, psatd, lx, uxp, m_xp, local_rho, local_jx, fieldVars>>
    /\ UNCHANGED otherVars


(***************************************************************************)
(* PhysicalParticleContainer::Evolve: per tile, field gather, push and     *)
(* deposition, in a parallel region over the tiles.                        *)
(***************************************************************************)
Gather(t) ==
    LET k == thr[t].tile IN
    /\ thr[t].pc = "gather"
    /\ hist' = [hist EXCEPT !.gath[k] =
                    [done |-> TRUE, fieldLag |-> istep - fieldGen[k],
                     haloLag |-> istep - haloGen[k]]]
    /\ thr' = Goto(t, "pushdep")
    /\ UNCHANGED <<dt, istep, phase, solver, sigba, psatd, particleVars, fieldVars>>
    /\ UNCHANGED otherVars

PushDeposit(t) ==
    LET k == thr[t].tile IN
    /\ thr[t].pc = "pushdep"
    /\ jx' = AtomicAdd(jx, PhysCurrent(k, istep), BoxEdges(k))
    /\ rho' = IF do_rho
              THEN [c \in 0..1 |->
                      AtomicAdd(rho[c],
                                PhysCharge(k, IF c = 0 THEN POld(k, istep) ELSE PNew(k, istep)),
                                BoxNodes(k))]
              ELSE rho
    /\ hist' = [hist EXCEPT !.dep = @ \cup {<<"phys", k>>}]
    /\ thr' = [thr EXCEPT ![t] = FinishTile(t, k, "gather")]
    /\ UNCHANGED <<dt, istep, phase, solver, sigba, psatd, lx, uxp, m_xp, local_rho,
                   local_jx, do_rho, amp, fieldVars>>
    /\ UNCHANGED otherVars

PhysEvolveReturn ==
    /\ phase = "phys"
    /\ RegionJoined
    /\ phase' = "laser"
    /\ thr' = StartRegion("getpos")
    /\ UNCHANGED <<dt, istep, solver, sigba, psatd, hist, particleVars, fieldVars>>
    /\ UNCHANGED otherVars

(***************************************************************************)
(* LaserParticleContainer::Evolve: the body of the loop over the tiles,    *)
(* one action per call, run by every thread of the parallel region on its  *)
(* tiles with the temporaries of its own slot.                             *)
(***************************************************************************)
\* pti.GetPosition(m_xp[thread_num], ...)
GetPositionThenCurrent(t) ==
    LET k == thr[t].tile
        s == ThreadNum(t) IN
    /\ thr[t].pc = "getpos"
    /\ m_xp' = [m_xp EXCEPT ![s] = [i \in 1..NpTile |-> lx[LIndex(k, i)]]]
    /\ thr' = Goto(t, "depJ")
    /\ UNCHANGED <<dt, istep, phase, solver, sigba, psatd, hist, lx, uxp, local_rho,
                   local_jx, rho, jx, do_rho, amp, fieldVars>>
    /\ UNCHANGED otherVars
GetPosition(t) ==
    LET k == thr[t].tile
        s == ThreadNum(t) IN
    /\ thr[t].pc = "getpos"
    /\ m_xp' = [m_xp EXCEPT ![s] = [i \in 1..NpTile |-> lx[LIndex(k, i)]]]
    /\ thr' = Goto(t, IF do_rho THEN "rho0" ELSE "push")
    /\ UNCHANGED <<dt, istep, phase, solver, sigba, psatd, hist, lx, uxp, local_rho,
                   local_jx, rho, jx, do_rho, amp, fieldVars>>
    /\ UNCHANGED otherVars

\* DepositCharge(pti, wp, rho, crho, icomp, ...): the kernel fills the thread-local buffer
DepositChargeLocal(t, icomp) ==
    LET k == thr[t].tile
        s == ThreadNum(t) IN
    /\ thr[t].pc = (IF icomp = 0 THEN "rho0" ELSE "rho1")
    /\ local_rho' = [local_rho EXCEPT ![s] = DepositChargeKernel(k, m_xp[s])]
    /\ thr' = Goto(t, IF icomp = 0 THEN "accrho0" ELSE "accrho1")
    /\ UNCHANGED <<dt, istep, phase, solver, sigba, psatd, hist, lx, uxp, m_xp,
                   local_jx, rho, jx, do_rho, amp, fieldVars>>
    /\ UNCHANGED otherVars

\* DepositCharge, continued: the buffer is added to component icomp of rho
AccumulateCharge(t, icomp) ==
    LET k == thr[t].tile
        s == ThreadNum(t) IN
    /\ thr[t].pc = (IF icomp = 0 THEN "accrho0" ELSE "accrho1")
    /\ rho' = [rho EXCEPT ![icomp] = AtomicAdd(rho[icomp], local_rho[s], BoxNodes(k))]
    /\ hist' = [hist EXCEPT !.dep = @ \cup {<<IF icomp = 0 THEN "rho0" ELSE "rho1", k>>}]
    /\ thr' = IF icomp = 0 THEN Goto(t, "push")
              ELSE [thr EXCEPT ![t] = FinishTile(t, k, "getpos")]
    /\ UNCHANGED <<dt, istep, phase, solver, sigba, psatd, lx, uxp, m_xp, local_rho,
                   local_jx, jx, do_rho, amp, fieldVars>>
    /\ UNCHANGED otherVars

\* update_laser_particle: velocity from the amplitude and the sign of the weight,
\* the temporary positions advanced by it
Push(t) ==
    LET k == thr[t].tile
        s == ThreadNum(t) IN
    /\ thr[t].pc = "push"
    /\ uxp' = [p \in LParts |-> IF LTile(p) = k THEN amp * LW(p) ELSE uxp[p]]
    /\ m_xp' = [m_xp EXCEPT ![s] = [i \in 1..NpTile |-> m_xp[s][i] + amp * LW(LIndex(k, i))]]
    /\ thr' = Goto(t, "depJ")
    /\ UNCHANGED <<dt, istep, phase, solver, sigba, psatd, hist, lx, local_rho,
                   local_jx, rho, jx, do_rho, amp, fieldVars>>
    /\ UNCHANGED otherVars

\* DepositCurrent(pti, wp, uxp, ...): the kernel fills the thread-local buffer
DepositCurrentLocal(t) ==
    LET k == thr[t].tile
        s == ThreadNum(t) IN
    /\ thr[t].pc = "depJ"
    /\ local_jx' = [local_jx EXCEPT ![s] = DepositCurrentKernel(k, m_xp[s], uxp)]
    /\ thr' = Goto(t, "accJ")
    /\ UNCHANGED <<dt, istep, phase, solver, sigba, psatd, hist, lx, uxp, m_xp,
                   local_rho, rho, jx, do_rho, amp, fieldVars>>
    /\ UNCHANGED otherVars

\* DepositCurrent, continued: the buffer is added to jx
AccumulateCurrent(t) ==
    LET k == thr[t].tile
        s == ThreadNum(t) IN
    /\ thr[t].pc = "accJ"
    /\ jx' = AtomicAdd(jx, local_jx[s], BoxEdges(k))
    /\ hist' = [hist EXCEPT !.dep = @ \cup {<<"J", k>>}]
    /\ thr' = Goto(t, "setpos")
    /\ UNCHANGED <<dt, istep, phase, solver, sigba, psatd, lx, uxp, m_xp, local_rho,
                   local_jx, rho, do_rho, amp, fieldVars>>
    /\ UNCHANGED otherVars

\* pti.SetPosition(m_xp[thread_num], ...)
SetPosition(t) ==
    LET k == thr[t].tile
        s == ThreadNum(t) IN
    /\ thr[t].pc = "setpos"
    /\ lx' = [p \in LParts |-> IF LTile(p) = k THEN m_xp[s][p - NpTile * (k - 1)] ELSE lx[p]]
    /\ thr' = IF do_rho THEN Goto(t, "rho1")
              ELSE [thr EXCEPT ![t] = FinishTile(t, k, "getpos")]
    /\ UNCHANGED <<dt, istep, phase, solver, sigba, psatd, hist, uxp, m_xp, local_rho,
                   local_jx, rho, jx, do_rho, amp, fieldVars>>
    /\ UNCHANGED otherVars

\* the closing brace of the parallel region: Evolve returns when every thread has
\* left its loop over the tiles
LaserRegionEndNoBarrier == AnyThreadDone
LaserRegionEnd == RegionJoined

LaserEvolveReturn ==
    /\ phase = "laser"
    /\ LaserRegionEnd
    /\ phase' = "update"
    /\ thr' = StartRegion("update")
    /\ UNCHANGED <<dt, istep, solver, sigba, psatd, hist, particleVars, fieldVars>>
    /\ UNCHANGED otherVars

(***************************************************************************)
(* Field update of the boxes, PML update, halo exchange, end of the step.  *)
(***************************************************************************)
FieldUpdate(t) ==
    LET k == thr[t].tile IN
    /\ thr[t].pc = "update"
    /\ fieldGen' = [fieldGen EXCEPT ![k] = @ + 1]
    /\ psatd' = IF solver = "PSATD" THEN pushSpectralFields_this(psatd) ELSE psatd
    /\ hist' = [hist EXCEPT
                  !.upd[k] = [done |-> TRUE, missing |-> AllDeps(do_rho) \ hist.dep],
                  !.push = IF solver = "PSATD"
                           THEN [done |-> TRUE, afterChange |-> hist.changed,
                                 current |-> psatd.coef = CoefFor(dt)]
                           ELSE @]
    /\ thr' = [thr EXCEPT ![t] = FinishTile(t, k, "update")]
    /\ UNCHANGED <<dt, istep, phase, solver, sigba, haloGen, particleVars>>
    /\ UNCHANGED otherVars

UpdateReturn ==
    /\ phase = "update"
    /\ RegionJoined
    /\ phase' = "pml"
    /\ UNCHANGED <<dt, istep, solver, sigba, psatd, thr, hist, particleVars, fieldVars>>
    /\ UNCHANGED otherVars

\* the update of the split fields of the PML shell, with the damping factors
PMLUpdate ==
    /\ phase = "pml"
    /\ hist' = [hist EXCEPT !.pml =
                    [done |-> TRUE, afterChange |-> hist.changed,
                     valid |-> [r \in Regions |-> FactorsValid(sigba[r], dt)]]]
    /\ phase' = "halo"
    /\ thr' = StartRegion("fill")
    /\ UNCHANGED <<dt, istep, solver, sigba, psatd, particleVars, fieldVars>>
    /\ UNCHANGED otherVars

\* the guard cells of box k receive the valid cells of its neighbours
FillBoundary(t) ==
    LET k == thr[t].tile IN
    /\ thr[t].pc = "fill"
    /\ haloGen' = [haloGen EXCEPT ![k] = Min({fieldGen[j] : j \in Nbrs(k) \cup {k}})]
    /\ thr' = [thr EXCEPT ![t] = FinishTile(t, k, "fill")]
    /\ UNCHANGED <<dt, istep, phase, solver, sigba, psatd, hist, fieldGen, particleVars>>
    /\ UNCHANGED otherVars

\* the step waits for the exchange of every box / does not wait
HaloRegionEndEarly == AnyThreadDone
HaloRegionEnd == RegionJoined

HaloReturn ==
    /\ phase = "halo"
    /\ HaloRegionEnd
    /\ phase' = "stepend"
    /\ UNCHANGED <<dt, istep, solver, sigba, psatd, thr, hist, particleVars, fieldVars>>
    /\ UNCHANGED otherVars

StepEndKeepDt ==
    /\ phase = "stepend"
    /\ istep' = istep + 1
    /\ phase' = "begin"
    /\ hist' = [HistInit EXCEPT !.changed = FALSE]
    /\ do_rho' = FALSE
    /\ amp' = 0
    /\ UNCHANGED <<dt, solver, sigba, psatd, thr, lx, uxp, m_xp, local_rho, local_jx, rho, jx,
                   fieldVars>>
    /\ UNCHANGED otherVars

\* a change of the timestep: the setup that depends on dt is run again
StepEndChangeDt ==
    /\ phase = "stepend"
    /\ istep + 1 < MaxStep
    /\ istep' = istep + 1
    /\ \E d \in DtVals \ {dt} : dt' = d
    /\ phase' = "factors"
    /\ hist' = [HistInit EXCEPT !.changed = TRUE]
    /\ do_rho' = FALSE
    /\ amp' = 0
    /\ UNCHANGED <<solver, sigba, psatd, thr, lx, uxp, m_xp, local_rho, local_jx, rho, jx,
                   fieldVars>>
    /\ UNCHANGED otherVars

StepNext ==
    \/ Construct
    \/ ComputePMLFactors
    \/ UpdateSpectralCoefficients
    \/ BeginStep
    \/ \E t \in Threads : Gather(t)
    \/ \E t \in Threads : PushDeposit(t)
    \/ PhysEvolveReturn
    \/ \E t \in Threads : GetPosition(t)
    \/ \E t \in Threads, icomp \in 0..1 : DepositChargeLocal(t, icomp)
    \/ \E t \in Threads, icomp \in 0..1 : AccumulateCharge(t, icomp)
    \/ \E t \in Threads : Push(t)
    \/ \E t \in Threads : DepositCurrentLocal(t)
    \/ \E t \in Threads : AccumulateCurrent(t)
    \/ \E t \in Threads : SetPosition(t)
    \/ LaserEvolveReturn
    \/ \E t \in Threads : FieldUpdate(t)
    \/ UpdateReturn
    \/ PMLUpdate
    \/ \E t \in Threads : FillBoundary(t)
    \/ HaloReturn
    \/ StepEndKeepDt
    \/ StepEndChangeDt

(***************************************************************************)
(* Particle identity: idcpu packs a valid flag (top bit), the id and the   *)
(* cpu number.  The widths are scaled down; the operations are those of   *)
(* amrex::ParticleIDWrapper.                                               *)
(***************************************************************************)
CpuRange == 2                       \* values of the cpu field
IdRange  == 4                       \* values of the id field
ValidBit == IdRange * CpuRange      \* the top bit of idcpu

Pack(v, id, cpu) == v * ValidBit + id * CpuRange + cpu
IdOf(idcpu)  == (idcpu % ValidBit) \div CpuRange
CpuOf(idcpu) == idcpu % CpuRange

is_valid(idcpu) == idcpu \div ValidBit = 1
make_invalid(idcpu) == idcpu % ValidBit         \* clears the top bit, keeps id and cpu

\* amrex::ParticleIdCpus::Invalid: flag clear, id field 1, cpu 0
ParticleIdCpus_Invalid == Pack(0, 1, 0)

(***************************************************************************)
(* scrapeParticlesAtEB (ParticleScraper.H) with the callbacks of           *)
(* ParticleBoundaryProcess.H, in XZ geometry.  Positions are in units of   *)
(* half a cell of the finest level.                                        *)
(***************************************************************************)
NPart       == 2        \* particles of the container
FinestLevel == 1        \* pc.finestLevel()

Parts  == 1..NPart
Levels == 0..FinestLevel

RECURSIVE Pow2(_)
Pow2(n) == IF n = 0 THEN 1 ELSE 2 * Pow2(n - 1)

DxOf(lev) == 2 * Pow2(FinestLevel - lev)        \* cell size of a level
DomainLen       == DxOf(0)                            \* the domain is one cell of level 0
NodesOf(lev) == 0..(DomainLen \div DxOf(lev))

\* the embedded boundary is the half plane x + z > Wall
Wall == DomainLen - 1
DistanceToEB(lev) == [i \in NodesOf(lev), j \in NodesOf(lev) |-> Wall - (i + j) * DxOf(lev)]

\* compute_weights<NODE>: node to the left and the two weights, in units of 1/dx
compute_weights(x, lev) ==
    [i |-> x \div DxOf(lev), W |-> <<DxOf(lev) - (x % DxOf(lev)), x % DxOf(lev)>>]

\* interp_field_nodal: bilinear interpolation, the value scaled by dx * dx
interp_field_nodal(cx, cz, f) ==
    LET term(ii, jj) == IF cx.W[ii + 1] = 0 \/ cz.W[jj + 1] = 0 THEN 0
                        ELSE cx.W[ii + 1] * cz.W[jj + 1] * f[cx.i + ii, cz.i + jj]
    IN term(0, 0) + term(1, 0) + term(0, 1) + term(1, 1)

PhiValue(p, f) == interp_field_nodal(compute_weights(p.x, p.lev), compute_weights(p.z, p.lev), f)

\* line 179: skip particles that are already flagged for removal
SkipNothing(p) == FALSE
SkipRemoved(p) == ~is_valid(p.idcpu)

\* line 190: the particle has entered the boundary
EnteredOrTouching(phi_value) == phi_value <= 0
Entered(phi_value) == phi_value < 0

\* ParticleBoundaryProcess::NoOp and ::Absorb on particle i of the tile data
NoOp(ptd, i) == ptd
AbsorbAndZeroWeight(ptd, i) == [ptd EXCEPT ![i].idcpu = make_invalid(@), ![i].w = 0]
Absorb(ptd, i) == [ptd EXCEPT ![i].idcpu = make_invalid(@)]

Callbacks == {"NoOp", "Absorb"}
ApplyF(f, ptd, i) == IF f = "Absorb" THEN Absorb(ptd, i) ELSE NoOp(ptd, i)

\* positions <<x, z>> of the model: outside the boundary, on it, inside it
PosVals == {<<Wall - 1, 0>>, <<Wall, 0>>, <<Wall, 1>>}

ScrIdle == [pc |-> "idle", lev_min |-> 0, lev_max |-> 0, lev |-> 0, f |-> "NoOp",
            visited |-> {}, calls |-> [ip \in Parts |-> 0], onInvalid |-> {},
            before |-> <<>>]

MakeParticle(ip, l, v, pos) ==
    [lev |-> l, idcpu |-> Pack(v, ip, ip % CpuRange), x |-> pos[1], z |-> pos[2], w |-> ip]

EBInit ==
    /\ \E l \in [Parts -> Levels], v \in [Parts -> 0..1], xs \in [Parts -> PosVals] :
          pcl = [ip \in Parts |-> MakeParticle(ip, l[ip], v[ip], xs[ip])]
    /\ phi = [lev \in Levels |-> DistanceToEB(lev)]
    /\ scr = ScrIdle

\* the container at rest, for the specifications of the other components
EBIdle ==
    /\ pcl = [ip \in Parts |-> MakeParticle(ip, 0, 1, <<Wall - 1, 0>>)]
    /\ phi = [lev \in Levels |-> DistanceToEB(lev)]
    /\ scr = ScrIdle

\* entry of the level loop of scrapeParticlesAtEB(pc, distance_to_eb, lev_min, lev_max, f)
ScrapeEnter(lev_min, lev_max, f) ==
    [scr EXCEPT !.pc = "run", !.lev_min = lev_min, !.lev_max = lev_max,
                !.lev = lev_min, !.f = f, !.before = pcl]

ScrapeLevels(lev_min, lev_max, f) ==
    /\ scr.pc = "idle"
    /\ scr' = ScrapeEnter(lev_min, lev_max, f)
    /\ UNCHANGED <<pcl, phi>>
    /\ UNCHANGED <<stepVars, qedVars, call>>

\* the overload for one level
ScrapeLevel(lev, f) ==
    /\ scr.pc = "idle"
    /\ scr' = ScrapeEnter(lev, lev, f)
    /\ UNCHANGED <<pcl, phi>>
    /\ UNCHANGED <<stepVars, qedVars, call>>

\* the overload for all the levels of the container
ScrapeAll(f) ==
    /\ scr.pc = "idle"
    /\ scr' = ScrapeEnter(0, FinestLevel, f)
    /\ UNCHANGED <<pcl, phi>>
    /\ UNCHANGED <<stepVars, qedVars, call>>

\* the body of the ParallelForRNG lambda for particle ip of the level in progress
ScrapeParticle(ip) ==
    /\ scr.pc = "run"
    /\ scr.lev <= scr.lev_max
    /\ pcl[ip].lev = scr.lev
    /\ ip \notin scr.visited
    /\ LET p == pcl[ip]
           hit == ~SkipRemoved(p) /\ Entered(PhiValue(p, phi[scr.lev]))
       IN /\ pcl' = IF hit THEN ApplyF(scr.f, pcl, ip) ELSE pcl
          /\ scr' = [scr EXCEPT !.visited = @ \cup {ip},
                                !.calls[ip] = IF hit THEN @ + 1 ELSE @,
                                !.onInvalid = IF hit /\ ~is_valid(p.idcpu)
                                              THEN @ \cup {ip} ELSE @]
    /\ UNCHANGED phi
    /\ UNCHANGED <<stepVars, qedVars, call>>

\* ++lev, once every particle of the level has been handled
ScrapeNextLevel ==
    /\ scr.pc = "run"
    /\ scr.lev <= scr.lev_max
    /\ \A ip \in Parts : pcl[ip].lev = scr.lev => ip \in scr.visited
    /\ scr' = [scr EXCEPT !.lev = @ + 1]
    /\ UNCHANGED <<pcl, phi>>
    /\ UNCHANGED <<stepVars, qedVars, call>>

\* the loop condition lev <= lev_max fails: the call returns
ScrapeReturn ==
    /\ scr.pc = "run"
    /\ scr.lev > scr.lev_max
    /\ scr' = [scr EXCEPT !.pc = "done"]
    /\ UNCHANGED <<pcl, phi>>
    /\ UNCHANGED <<stepVars, qedVars, call>>

EBNext ==
    \/ \E lev_min, lev_max \in Levels, f \in Callbacks : ScrapeLevels(lev_min, lev_max, f)
    \/ \E lev \in Levels, f \in Callbacks : ScrapeLevel(lev, f)
    \/ \E f \in Callbacks : ScrapeAll(f)
    \/ \E ip \in Parts : ScrapeParticle(ip)
    \/ ScrapeNextLevel
    \/ ScrapeReturn

(***************************************************************************)
(* Breit-Wheeler pair generation (QEDPairGeneration.H): the filter and the *)
(* transform functor, applied by a filter / copy / transform pass over the *)
(* photons of a tile.                                                      *)
(***************************************************************************)
NPhot == 2              \* photons of the tile

Phots == 1..NPhot
OptDepths == -1..1      \* optical depth: below zero, zero, above zero

\* PairGenerationFilterFunc::operator(): true if a pair has to be generated
PairGenerationFilterFuncLeq(ptd, i) == ptd[i].opt_depth <= 0
PairGenerationFilterFunc(ptd, i) == ptd[i].opt_depth < 0

\* BreitWheelerGeneratePairs: the momentum of the photon is split between the two
\* products; r is the draw of the random engine
GeneratePairs(ux, r) == [e_ux |-> r, p_ux |-> ux - r]

\* PairGenerationTransformFunc::operator(): sets the momenta of the two products and
\* destroys the source photon
PairGenerationTransformFunc(dst, src, i_src, i_dst, r) ==
    LET g == GeneratePairs(src[i_src].ux, r)
    IN [dst1 |-> [dst.dst1 EXCEPT ![i_dst].ux = g.e_ux],
        dst2 |-> [dst.dst2 EXCEPT ![i_dst].ux = g.p_ux],
        src  |-> [src EXCEPT ![i_src].idcpu = ParticleIdCpus_Invalid]]

MakePhoton(i, v, od) ==
    [idcpu |-> Pack(v, i, i % CpuRange), opt_depth |-> od, ux |-> i, w |-> i]

QedIdle == [pc |-> "idle", filtered |-> {}, mask |-> [i \in Phots |-> 0], moved |-> {},
            before |-> <<>>]

QEDInit ==
    /\ \E v \in [Phots -> 0..1], od \in [Phots -> OptDepths] :
          pho = [i \in Phots |-> MakePhoton(i, v[i], od[i])]
    /\ prod = [dst1 |-> <<>>, dst2 |-> <<>>]
    /\ qed = QedIdle

\* the photon tile at rest, for the specifications of the other components
QEDRest ==
    /\ pho = [i \in Phots |-> MakePhoton(i, 1, 1)]
    /\ prod = [dst1 |-> <<>>, dst2 |-> <<>>]
    /\ qed = QedIdle

\* destination index of a selected photon: the number of selected photons before it
DstIndex(mask, i) == Cardinality({j \in Phots : j < i /\ mask[j] = 1}) + 1

\* the pass starts on the tile
PairGenerationStart ==
    /\ qed.pc = "idle"
    /\ qed' = [qed EXCEPT !.pc = "filter", !.before = pho]
    /\ UNCHANGED <<pho, prod>>
    /\ UNCHANGED <<stepVars, ebVars, call>>

\* the filter is evaluated on photon i
FilterPhoton(i) ==
    /\ qed.pc = "filter"
    /\ i \notin qed.filtered
    /\ qed' = [qed EXCEPT !.filtered = @ \cup {i},
                          !.mask[i] = IF PairGenerationFilterFunc(pho, i) THEN 1 ELSE 0]
    /\ UNCHANGED <<pho, prod>>
    /\ UNCHANGED <<stepVars, ebVars, call>>

\* the product tiles are resized for the selected photons
ResizeProducts ==
    /\ qed.pc = "filter"
    /\ qed.filtered = Phots
    /\ LET n == Cardinality({i \in Phots : qed.mask[i] = 1})
           blank == [ux |-> 0, w |-> 0]
       IN prod' = [dst1 |-> [k \in 1..n |-> blank], dst2 |-> [k \in 1..n |-> blank]]
    /\ qed' = [qed EXCEPT !.pc = "transform"]
    /\ UNCHANGED pho
    /\ UNCHANGED <<stepVars, ebVars, call>>

\* a selected photon is copied to the two products and the transform is applied
TransformPhoton(i) ==
    /\ qed.pc = "transform"
    /\ qed.mask[i] = 1
    /\ i \notin qed.moved
    /\ \E r \in 0..pho[i].ux :
          LET k == DstIndex(qed.mask, i)
              copy == [ux |-> pho[i].ux, w |-> pho[i].w]
              copied == [dst1 |-> [prod.dst1 EXCEPT ![k] = copy],
                         dst2 |-> [prod.dst2 EXCEPT ![k] = copy]]
              out == PairGenerationTransformFunc(copied, pho, i, k, r)
          IN /\ prod' = [dst1 |-> out.dst1, dst2 |-> out.dst2]
             /\ pho' = out.src
    /\ qed' = [qed EXCEPT !.moved = @ \cup {i}]
    /\ UNCHANGED <<stepVars, ebVars, call>>

\* every selected photon has been transformed: the pass returns
PairGenerationReturn ==
    /\ qed.pc = "transform"
    /\ \A i \in Phots : qed.mask[i] = 1 => i \in qed.moved
    /\ qed' = [qed EXCEPT !.pc = "done"]
    /\ UNCHANGED <<pho, prod>>
    /\ UNCHANGED <<stepVars, ebVars, call>>

QEDNext ==
    \/ PairGenerationStart
    \/ \E i \in Phots : FilterPhoton(i)
    \/ ResizeProducts
    \/ \E i \in Phots : TransformPhoton(i)
    \/ PairGenerationReturn

(***************************************************************************)
(* QED photon emission: the filter and the transform functor applied by a  *)
(* filter / copy / transform pass over the electrons (or positrons) of a   *)
(* tile, then cleanLowEnergyPhotons on the photons the pass has added.     *)
(* Tiles are 0-based arrays, held as sequences: entry n is element n + 1.  *)
(***************************************************************************)
NSrc   == 2             \* emitting particles of the tile
MaxU   == 2             \* largest momentum, in units in which me_c is 1
MaxThr == 2             \* largest energy threshold

me_c == 1               \* PhysConst::m_e * PhysConst::c in the units of the model
RealMin == 1            \* std::numeric_limits<ParticleReal>::min(): smallest positive value

\* PhotonEmissionFilterFunc::operator()
PhotonEmissionFilterFunc(ptd, i) == ptd[i].opt_depth < 0

\* PhotonEmissionTransformFunc::operator(): the draws of the engine are k, the part of
\* the momentum that m_emission_functor gives to the photon, and fresh, the value of
\* m_opt_depth_functor
PhotonEmissionKeepsDepth(dst, src, i_src, i_dst, k, fresh) ==
    [dst |-> [dst EXCEPT ![i_dst].ux = k],
     src |-> [src EXCEPT ![i_src].ux = @ - k]]
PhotonEmissionTransformFunc(dst, src, i_src, i_dst, k, fresh) ==
    [dst |-> [dst EXCEPT ![i_dst].ux = k],
     src |-> [src EXCEPT ![i_src].ux = @ - k, ![i_src].opt_depth = fresh]]

\* the square of the energy threshold
ThresholdNoFloor(energy_threshold) == energy_threshold * energy_threshold
energy_threshold2(energy_threshold) ==
    IF energy_threshold * energy_threshold >= RealMin
    THEN energy_threshold * energy_threshold ELSE RealMin

\* the body of the ParallelFor lambda of cleanLowEnergyPhotons on element ip of the
\* arrays that start at element old_size of the tile
cleanLowEnergyPhoton(tile, old_size, ip, energy_threshold) ==
    LET p == tile[old_size + ip + 1]
        phot_energy2 == (p.ux * p.ux + p.uy * p.uy + p.uz * p.uz) * me_c * me_c
    IN IF phot_energy2 < energy_threshold2(energy_threshold)
       THEN [tile EXCEPT ![old_size + ip + 1].idcpu = ParticleIdCpus_Invalid]
       ELSE tile

\* the tiles before the pass: the photon tile holds one photon already, of zero energy
EmitInit ==
    \E v \in [1..NSrc -> 0..1], od \in [1..NSrc -> OptDepths], th \in 0..MaxThr :
        LET src == [i \in 1..NSrc |->
                       [idcpu |-> Pack(v[i], i % IdRange, i % CpuRange),
                        opt_depth |-> od[i], ux |-> MaxU]]
        IN call = [fn |-> "emit", pc |-> "filter",
                   src |-> src, src0 |-> src,
                   dst |-> <<[idcpu |-> Pack(1, 1, 0), ux |-> 0, uy |-> 0, uz |-> 0]>>,
                   dst0 |-> <<>>, energy_threshold |-> th,
                   filtered |-> {}, mask |-> [i \in 1..NSrc |-> 0], moved |-> {},
                   fresh |-> [i \in 1..NSrc |-> 0],
                   old_size |-> 0, num_added |-> 0, cleaned |-> {}]

\* the filter on one particle of the source tile
EmitFilter(i) ==
    /\ call.fn = "emit" /\ call.pc = "filter"
    /\ i \notin call.filtered
    /\ call' = [call EXCEPT !.filtered = @ \cup {i},
                            !.mask[i] = IF PhotonEmissionFilterFunc(call.src, i)
                                        THEN 1 ELSE 0]
    /\ UNCHANGED <<stepVars, ebVars, qedVars>>

\* the photon tile is resized for the selected particles
EmitResize ==
    /\ call.fn = "emit" /\ call.pc = "filter"
    /\ call.filtered = 1..NSrc
    /\ LET n == Cardinality({i \in 1..NSrc : call.mask[i] = 1})
           old == Len(call.dst)
       IN call' = [call EXCEPT !.pc = "transform",
                               !.old_size = old, !.num_added = n,
                               !.dst = [k \in 1..(old + n) |->
                                           IF k <= old THEN call.dst[k]
                                           ELSE [idcpu |-> Pack(1, k % IdRange, 0),
                                                 ux |-> 0, uy |-> 0, uz |-> 0]]]
    /\ UNCHANGED <<stepVars, ebVars, qedVars>>

\* a selected particle: its momentum is copied to its new photon, then the transform
EmitTransform(i) ==
    /\ call.fn = "emit" /\ call.pc = "transform"
    /\ call.mask[i] = 1
    /\ i \notin call.moved
    /\ \E k \in 0..call.src[i].ux, fresh \in OptDepths :
          LET n == call.old_size
                      + Cardinality({j \in 1..NSrc : j < i /\ call.mask[j] = 1}) + 1
              copied == [call.dst EXCEPT ![n].ux = call.src[i].ux]
              out == PhotonEmissionTransformFunc(copied, call.src, i, n, k, fresh)
          IN call' = [call EXCEPT !.src = out.src, !.dst = out.dst,
                                  !.moved = @ \cup {i}, !.fresh[i] = fresh]
    /\ UNCHANGED <<stepVars, ebVars, qedVars>>

\* the pass returns the number of photons added; cleanLowEnergyPhotons is called
EmitCleanStart ==
    /\ call.fn = "emit" /\ call.pc = "transform"
    /\ \A i \in 1..NSrc : call.mask[i] = 1 => i \in call.moved
    /\ call' = [call EXCEPT !.pc = "clean", !.dst0 = call.dst]
    /\ UNCHANGED <<stepVars, ebVars, qedVars>>

\* one iteration of the ParallelFor of cleanLowEnergyPhotons (ip in 0 .. num_added-1)
CleanPhoton(ip) ==
    /\ call.fn = "emit" /\ call.pc = "clean"
    /\ ip < call.num_added
    /\ ip \notin call.cleaned
    /\ call' = [call EXCEPT !.dst = cleanLowEnergyPhoton(call.dst, call.old_size, ip,
                                                         call.energy_threshold),
                            !.cleaned = @ \cup {ip}]
    /\ UNCHANGED <<stepVars, ebVars, qedVars>>

(***************************************************************************)
(* SplitAndScatterFunc::operator() (DSMC): the product tiles are resized   *)
(* for the pairs that collide and each colliding pair is split into its    *)
(* products. A tile is the sequence of the weights of its particles, -1    *)
(* for an element that was never written; element n of the 0-based arrays  *)
(* is entry n + 1.                                                         *)
(***************************************************************************)
NPairs  == 2            \* largest n_total_pairs
MaxProd == 2            \* largest number of products of one species per collision
MaxNp   == 1            \* largest number of particles of a product tile before the call

m_num_product_species == 2      \* the kernel writes the products of species 0 and 1
NScatteringTypes == 3           \* ELASTIC, BACK, CHARGE_EXCHANGE

\* Scan::PrefixSum of (mask[i] ? 1 : 0) over the first n elements: offsets_data[n],
\* and the returned sum for n = n_total_pairs
PrefixSumOfOnes(mask, n) == Cardinality({j \in 1..n : mask[j] = 1})
PrefixSum(mask, n) == Cardinality({j \in 1..n : mask[j] # 0})

SplitInit ==
    \E n \in 0..NPairs, even_mass \in BOOLEAN :
    \E mask \in [1..n -> 0..(NScatteringTypes + 1)],
       np \in [1..m_num_product_species -> 0..MaxNp],
       num \in [1..m_num_product_species -> 1..MaxProd] :
        call = [fn |-> "split", pc |-> "enter",
                n_total_pairs |-> n, mask |-> mask, even_mass |-> even_mass,
                products_np |-> np, m_num_products |-> num,
                tile_products |-> [s \in 1..m_num_product_species |->
                                      [k \in 1..np[s] |-> 1]],
                w1 |-> [i \in 1..n |-> 2], w2 |-> [i \in 1..n |-> 2],
                num_added_vec |-> <<>>, ret |-> <<>>, done |-> {}]

\* from the entry to the kernel: the early return, the scan and the resize loop
SplitAndScatterEnter ==
    /\ call.fn = "split" /\ call.pc = "enter"
    /\ IF call.n_total_pairs = 0
       THEN call' = [call EXCEPT !.pc = "returned",
                                 !.ret = [s \in 1..m_num_product_species |-> 0]]
       ELSE LET total == PrefixSum(call.mask, call.n_total_pairs)
                num_added == [s \in 1..m_num_product_species |->
                                 total * call.m_num_products[s]]
            IN call' = [call EXCEPT
                   !.pc = "kernel", !.num_added_vec = num_added,
                   !.tile_products = [s \in 1..m_num_product_species |->
                        [k \in 1..(call.products_np[s] + num_added[s]) |->
                            IF k <= Len(call.tile_products[s])
                            THEN call.tile_products[s][k] ELSE -1]]]
    /\ UNCHANGED <<stepVars, ebVars, qedVars>>

\* the ParallelForRNG lambda on pair i (0-based): the first product of each species
\* gets the reaction weight, which is taken from the colliding particles; an unknown
\* process, or a charge exchange between unequal masses, aborts
SplitAndScatterPair(i) ==
    /\ call.fn = "split" /\ call.pc = "kernel"
    /\ i < call.n_total_pairs /\ i \notin call.done
    /\ LET m == call.mask[i + 1]
           product_index(s) == call.products_np[s]
                                  + PrefixSum(call.mask, i) * call.m_num_products[s] + 0
       IN IF m = 0
          THEN call' = [call EXCEPT !.done = @ \cup {i}]
          ELSE IF m > NScatteringTypes \/ (m = NScatteringTypes /\ ~call.even_mass)
          THEN call' = [call EXCEPT
                   !.pc = "aborted",
                   !.tile_products = [s \in 1..m_num_product_species |->
                        [@[s] EXCEPT ![product_index(s) + 1] = 1]],
                   !.w1[i + 1] = @ - 1, !.w2[i + 1] = @ - 1]
          ELSE call' = [call EXCEPT
                   !.done = @ \cup {i},
                   !.tile_products = [s \in 1..m_num_product_species |->
                        [@[s] EXCEPT ![product_index(s) + 1] = 1]],
                   !.w1[i + 1] = @ - 1, !.w2[i + 1] = @ - 1]
    /\ UNCHANGED <<stepVars, ebVars, qedVars>>

\* after the kernel: the runtime components are initialized, num_added_vec is returned
SplitAndScatterReturn ==
    /\ call.fn = "split" /\ call.pc = "kernel"
    /\ call.done = 0..(call.n_total_pairs - 1)
    /\ call' = [call EXCEPT !.pc = "returned", !.ret = call.num_added_vec]
    /\ UNCHANGED <<stepVars, ebVars, qedVars>>

(***************************************************************************)
(* ElasticCollisionPerez: the collisions of the particles of two groups of *)
(* a cell, one call per collision index offset coll_idx = 0 .. min_N - 1.  *)
(* A group is the part I[Is .. Ie-1] of an index array. The record holds   *)
(* the arguments, the locals of the call in progress and, per particle,    *)
(* the number of calls of UpdateMomentumPerezElastic it was passed to.     *)
(***************************************************************************)
MaxN == 3               \* largest number of particles of a group

\* T1t (T2t): the temperature argument, or the value of ComputeTemperature
TemperatureComputedIfNotGiven(T, L, computed) == IF T <= 0 THEN computed ELSE T
LocalTemperature(T, L, computed) == IF T <= 0 /\ L <= 0 THEN computed ELSE T

\* i1 (i2) at the end of an iteration of the collision loop
IndexNeverAdvanced(i, NI, max_N, min_N) == i
NextIndex(i, NI, max_N, min_N) == IF max_N = NI THEN i + min_N ELSE i

\* two groups that are not empty; the index arrays hold the particles of a group in
\* reverse order; ComputeTemperature would return 2 for group 1 and 3 for group 2
PerezInit ==
    \E I1s \in 0..1, NI1 \in 1..MaxN, NI2 \in 1..MaxN, T1 \in -1..1, T2 \in -1..1,
       L \in -1..1 :
        LET I2s == 1 - I1s
            I1e == I1s + NI1
            I2e == I2s + NI2
        IN call = [fn |-> "perez", pc |-> "idle",
                   I1s |-> I1s, I1e |-> I1e, I2s |-> I2s, I2e |-> I2e,
                   I1 |-> [i \in 0..(I1e - 1) |-> IF i < I1s THEN i ELSE I1s + I1e - 1 - i],
                   I2 |-> [i \in 0..(I2e - 1) |-> IF i < I2s THEN i ELSE I2s + I2e - 1 - i],
                   T1 |-> T1, T2 |-> T2, L |-> L,
                   called |-> {}, coll_idx |-> 0, k |-> 0, i1 |-> 0, i2 |-> 0,
                   T1t |-> 0, T2t |-> 0, L_passed |-> {},
                   count1 |-> [p \in 0..(I1e - 1) |-> 0],
                   count2 |-> [p \in 0..(I2e - 1) |-> 0],
                   collisions |-> 0]

\* the call for one collision index, up to the collision loop
ElasticCollisionPerez(coll_idx) ==
    /\ call.fn = "perez" /\ call.pc = "idle"
    /\ LET NI1 == call.I1e - call.I1s
           NI2 == call.I2e - call.I2s
           min_N == IF NI1 <= NI2 THEN NI1 ELSE NI2
       IN /\ coll_idx < min_N /\ coll_idx \notin call.called
          /\ call' = [call EXCEPT
                 !.pc = "loop", !.called = @ \cup {coll_idx}, !.coll_idx = coll_idx,
                 !.T1t = LocalTemperature(call.T1, call.L, 2),
                 !.T2t = LocalTemperature(call.T2, call.L, 3),
                 !.i1 = call.I1s + coll_idx, !.i2 = call.I2s + coll_idx,
                 !.k = coll_idx]
    /\ UNCHANGED <<stepVars, ebVars, qedVars>>

\* one iteration of the collision loop: UpdateMomentumPerezElastic on the particles
\* I1[i1] and I2[i2]
PerezCollide ==
    /\ call.fn = "perez" /\ call.pc = "loop"
    /\ LET NI1 == call.I1e - call.I1s
           NI2 == call.I2e - call.I2s
           max_N == IF NI1 >= NI2 THEN NI1 ELSE NI2
           min_N == IF NI1 <= NI2 THEN NI1 ELSE NI2
       IN /\ call.k < max_N
          /\ call' = [call EXCEPT
                 !.count1[call.I1[call.i1]] = @ + 1,
                 !.count2[call.I2[call.i2]] = @ + 1,
                 !.collisions = @ + 1,
                 !.L_passed = @ \cup {call.L},
                 !.i1 = NextIndex(call.i1, NI1, max_N, min_N),
                 !.i2 = NextIndex(call.i2, NI2, max_N, min_N),
                 !.k = @ + min_N]
    /\ UNCHANGED <<stepVars, ebVars, qedVars>>

\* the loop condition k < max_N fails: the call returns
PerezReturn ==
    /\ call.fn = "perez" /\ call.pc = "loop"
    /\ LET NI1 == call.I1e - call.I1s
           NI2 == call.I2e - call.I2s
       IN call.k >= (IF NI1 >= NI2 THEN NI1 ELSE NI2)
    /\ call' = [call EXCEPT !.pc = "idle"]
    /\ UNCHANGED <<stepVars, ebVars, qedVars>>

(***************************************************************************)
(* The particle filters of the diagnostics (FilterFunctors.H). Reals are   *)
(* integers: a fraction f stands for f / MaxFrac and the random draw d for *)
(* d / MaxFrac, which is below 1; a position is a cell.                    *)
(***************************************************************************)
MaxId     == 2          \* largest particle id; ids of removed particles are negative
MaxStride == 2          \* largest stride
MaxFrac   == 2          \* resolution of the fraction and of the random draw

\* RandomFilter::operator(): draw is the value of amrex::Random(engine)
RandomFilter(m_is_active, m_fraction, draw) == (~m_is_active) \/ draw < m_fraction

\* UniformFilter::operator()
UniformFilterWhenActive(m_is_active, m_stride, id) == m_is_active /\ id % m_stride = 0
UniformFilter(m_is_active, m_stride, id) == (~m_is_active) \/ id % m_stride = 0

\* ParserFilter::operator(): parsed is the value of m_function_partparser on the time,
\* the position and the momentum of the particle
ParserFilter(m_is_active, parsed) == IF ~m_is_active THEN TRUE ELSE parsed # 0

\* GeometryFilter::operator()
GeometryFilter(m_is_active, m_domain, pos) ==
    IF ~m_is_active THEN TRUE ELSE pos >= m_domain.lo /\ pos <= m_domain.hi

\* the filters as constructed and the particle they are applied to; a filter that is
\* active has a stride of one or more, one that is not may have the default stride 0
FilterInit ==
    \E active \in [{"random", "uniform", "parser", "geometry"} -> BOOLEAN],
       id \in (0 - MaxId)..MaxId, stride \in 0..MaxStride,
       fraction \in 0..MaxFrac, draw \in 0..(MaxFrac - 1),
       parsed \in 0..1, pos \in 0..2 :
        /\ active["uniform"] => stride >= 1
        /\ call = [fn |-> "filter", pc |-> "enter", active |-> active,
                   id |-> id, stride |-> stride, fraction |-> fraction, draw |-> draw,
                   parsed |-> parsed, pos |-> pos, domain |-> [lo |-> 1, hi |-> 1],
                   selected |-> [f \in {} |-> FALSE]]

\* the four functors on the particle
FilterParticle ==
    /\ call.fn = "filter" /\ call.pc = "enter"
    /\ call' = [call EXCEPT
           !.pc = "returned",
           !.selected =
               [f \in DOMAIN call.active |->
                   CASE f = "random" -> RandomFilter(call.active[f], call.fraction, call.draw)
                     [] f = "uniform" -> UniformFilter(call.active[f], call.stride, call.id)
                     [] f = "parser" -> ParserFilter(call.active[f], call.parsed)
                     [] f = "geometry" -> GeometryFilter(call.active[f], call.domain,
                                                         call.pos)]]
    /\ UNCHANGED <<stepVars, ebVars, qedVars>>

(***************************************************************************)
(* The constructor of LaserParticleContainer, from the plane normal on:    *)
(* the normalisation of the direction, the check of the boost direction,   *)
(* the conversion of the antenna position and the check of the             *)
(* polarization. Vectors are along an axis and have integer components.    *)
(***************************************************************************)
MaxGamma == 2           \* largest gamma_boost; 1 is a run without boost
MaxLen   == 2           \* largest length of the direction vector as given

\* the inputs: direction and polarization as given, boost direction, antenna position
LaserInit ==
    \E gamma_boost \in 1..MaxGamma, len \in 1..MaxLen, sgn \in {-1, 1},
       a \in 1..3, b \in 1..3, p \in 1..3, z \in 0..1 :
        call = [fn |-> "laser", pc |-> "enter", gamma_boost |-> gamma_boost,
                nvec |-> [d \in 1..3 |-> IF d = a THEN sgn * len ELSE 0],
                boost_direction |-> [d \in 1..3 |-> IF d = b THEN 1 ELSE 0],
                p_X |-> [d \in 1..3 |-> IF d = p THEN len ELSE 0],
                position |-> [d \in 1..3 |-> z * MaxGamma],
                message |-> ""]

\* LaserParticleContainer::LaserParticleContainer. The sum of the squares of a vector
\* along an axis is the square of its one component; for integers, x - 1 < 1.e-12 is
\* x - 1 <= 0 and abs(dp) < 1.0e-14 is dp = 0.
LaserParticleContainer ==
    /\ call.fn = "laser" /\ call.pc = "enter"
    /\ LET dot(u, v) == u[1] * v[1] + u[2] * v[2] + u[3] * v[3]
           norm(v) == CHOOSE s \in 1..(MaxLen + 1) : s * s = dot(v, v)
           nvec == [d \in 1..3 |-> call.nvec[d] \div norm(call.nvec)]
           p_X == [d \in 1..3 |-> call.p_X[d] \div norm(call.p_X)]
           Z0_lab == dot(nvec, call.position)
           Z0_boost == Z0_lab \div call.gamma_boost
           position == IF call.gamma_boost > 1
                       THEN [d \in 1..3 |-> call.position[d] + (Z0_boost - Z0_lab) * nvec[d]]
                       ELSE call.position
       IN IF call.gamma_boost > 1 /\ ~(dot(nvec, call.boost_direction) - 1 <= 0)
          THEN call' = [call EXCEPT
                   !.pc = "aborted", !.nvec = nvec,
                   !.message = "The Lorentz boost should be in the same direction as the laser propagation"]
          ELSE IF dot(nvec, p_X) # 0
          THEN call' = [call EXCEPT
                   !.pc = "aborted", !.nvec = nvec, !.position = position, !.p_X = p_X,
                   !.message = "Laser plane vector is not perpendicular to the main polarization vector"]
          ELSE call' = [call EXCEPT
                   !.pc = "constructed", !.nvec = nvec, !.position = position,
                   !.p_X = p_X]
    /\ UNCHANGED <<stepVars, ebVars, qedVars>>

(***************************************************************************)
(* Fatal errors in a step. amrex::Abort ends the process, with all its     *)
(* threads, where it is called; the state of the step is left as it is.    *)
(***************************************************************************)
\* amrex::Abort in a kernel of the particle phase, called by thread t
AbortInKernel(t) ==
    /\ phase = "phys"
    /\ thr[t].pc = "pushdep"
    /\ phase' = "aborted"
    /\ thr' = [u \in Threads |-> [thr[u] EXCEPT !.pc = "aborted"]]
    /\ UNCHANGED <<dt, istep, solver, sigba, psatd, hist, particleVars, fieldVars>>
    /\ UNCHANGED otherVars

\* a value that is not finite is found after the field update: fatal, no retry
RetryAfterUpdate ==
    /\ phase = "pml"
    /\ phase' = "begin"
    /\ UNCHANGED <<dt, istep, solver, sigba, psatd, thr, hist, particleVars, fieldVars>>
    /\ UNCHANGED otherVars
AbortAfterUpdate ==
    /\ phase = "pml"
    /\ phase' = "aborted"
    /\ UNCHANGED <<dt, istep, solver, sigba, psatd, thr, hist, particleVars, fieldVars>>
    /\ UNCHANGED otherVars

(***************************************************************************)
(* The update of E in the PML shell and the ordinary update, on two cells  *)
(* of a one-dimensional grid (fields Ey and Bz, derivative along x). In    *)
(* the shell Ey is held as its split components Eyx and Eyz; the component *)
(* Eyx, driven by the derivative along x, is damped with sigma_fac of its  *)
(* cell. A damping factor f stands for f / FacScale.                       *)
(***************************************************************************)
MaxSigma == 1           \* largest damping coefficient sigma of a cell
FacScale == 4           \* resolution of the damping factors

\* SigmaBox::ComputePMLFactorsE: sigma_fac = exp(-sigma * dt), rounded to the
\* resolution (one half per unit of sigma * dt in place of 1/e)
SigmaFacBelowOne(s, d) == FacScale \div Pow2(s * d + 1)
ComputeSigmaFac(s, d) == FacScale \div Pow2(s * d)

\* the ordinary update of Ey in cell i from the curl of B
EvolveE(E, B, d, i) == E[i] - d * (B[i] - (IF i = 0 THEN 0 ELSE B[i - 1]))

PMLInit ==
    \E Eyx \in [0..1 -> -1..1], Eyz \in [0..1 -> 0..1], B \in [0..1 -> 0..1],
       sigma \in [0..1 -> 0..MaxSigma], d \in DtVals :
        call = [fn |-> "pml", pc |-> "enter", dt |-> d, sigma |-> sigma, B |-> B,
                Eyx |-> Eyx, Eyz |-> Eyz,
                E |-> [i \in 0..1 |-> Eyx[i] + Eyz[i]],
                sigma_fac |-> [i \in 0..1 |-> 0]]

\* ComputePMLFactors(dt), then the update of the split components in the shell: the
\* same kernel with the damping factor multiplying the updated component, and the
\* ordinary update of E on a grid without shell
EvolveEPML ==
    /\ call.fn = "pml" /\ call.pc = "enter"
    /\ LET fac == [i \in 0..1 |-> ComputeSigmaFac(call.sigma[i], call.dt)]
       IN call' = [call EXCEPT
              !.pc = "updated", !.sigma_fac = fac,
              !.Eyx = [i \in 0..1 |->
                         (fac[i] * EvolveE(call.Eyx, call.B, call.dt, i)) \div FacScale],
              !.E = [i \in 0..1 |-> EvolveE(call.E, call.B, call.dt, i)]]
    /\ UNCHANGED <<stepVars, ebVars, qedVars>>

(***************************************************************************)
(* GetVelocity::operator() (GetVelocity.H): the bulk velocity at a point.  *)
(* The parser is a function of the x coordinate of the point.              *)
(***************************************************************************)
MaxVel == 2             \* largest magnitude of a velocity value

\* the two returning cases of the switch on m_type
GetVelocityUnsigned(g, x) ==
    IF g.m_type = "VelConstantValue" THEN g.m_velocity ELSE g.m_velocity_parser[x]
GetVelocity(g, x) ==
    IF g.m_type = "VelConstantValue" THEN g.m_sign_dir * g.m_velocity
    ELSE g.m_sign_dir * g.m_velocity_parser[x]

\* the functor as constructed, and the point it is called at
GetVelocityInit ==
    \E m_type \in {"VelConstantValue", "VelParserFunction", "VelOther"},
       m_sign_dir \in {-1, 1}, m_velocity \in 0..MaxVel,
       m_velocity_parser \in [0..1 -> 0..MaxVel], x \in 0..1 :
        call = [fn |-> "velocity", pc |-> "enter", x |-> x,
                g |-> [m_type |-> m_type, m_sign_dir |-> m_sign_dir,
                       m_velocity |-> m_velocity,
                       m_velocity_parser |-> m_velocity_parser],
                ret |-> 0]

\* the call: a return value, or amrex::Abort in the default case
GetVelocityCall ==
    /\ call.fn = "velocity" /\ call.pc = "enter"
    /\ IF call.g.m_type \in {"VelConstantValue", "VelParserFunction"}
       THEN call' = [call EXCEPT !.pc = "returned", !.ret = GetVelocity(call.g, call.x)]
       ELSE call' = [call EXCEPT !.pc = "aborted"]
    /\ UNCHANGED <<stepVars, ebVars, qedVars>>

(***************************************************************************)
(* The specifications. Each one runs one part of the program and holds the *)
(* state of the other parts fixed.                                         *)
(***************************************************************************)
CallIdle == call = [fn |-> "none"]

Init == StepInit /\ EBIdle /\ QEDRest /\ CallIdle
Next == StepNext
Spec == Init /\ [][Next]_vars

\* the step cycle with its fatal errors
NextAbort ==
    \/ StepNext
    \/ \E t \in Threads : AbortInKernel(t)
    \/ AbortAfterUpdate
SpecAbort == Init /\ [][NextAbort]_vars

InitEB == StepIdle /\ EBInit /\ QEDRest /\ CallIdle
SpecEB == InitEB /\ [][EBNext]_vars

InitQED == StepIdle /\ EBIdle /\ QEDInit /\ CallIdle
SpecQED == InitQED /\ [][QEDNext]_vars

\* one call of one of the routines, from any of its initial states
InitCall ==
    /\ StepIdle /\ EBIdle /\ QEDRest
    /\ \/ EmitInit
       \/ SplitInit
       \/ PerezInit
       \/ FilterInit
       \/ LaserInit
       \/ PMLInit
       \/ GetVelocityInit
CallNext ==
    \/ \E i \in 1..NSrc : EmitFilter(i)
    \/ EmitResize
    \/ \E i \in 1..NSrc : EmitTransform(i)
    \/ EmitCleanStart
    \/ \E ip \in 0..(NSrc - 1) : CleanPhoton(ip)
    \/ SplitAndScatterEnter
    \/ \E i \in 0..(NPairs - 1) : SplitAndScatterPair(i)
    \/ SplitAndScatterReturn
    \/ \E coll_idx \in 0..(MaxN - 1) : ElasticCollisionPerez(coll_idx)
    \/ PerezCollide
    \/ PerezReturn
    \/ FilterParticle
    \/ LaserParticleContainer
    \/ EvolveEPML
    \/ GetVelocityCall
SpecCall == InitCall /\ [][CallNext]_vars

(***************************************************************************)
(* Properties of the step cycle.                                           *)
(***************************************************************************)
FieldPhases == {"update", "pml", "halo", "stepend"}
DepositOps  == {"pushdep", "rho0", "accrho0", "push", "depJ", "accJ", "setpos", "rho1", "accrho1"}

\* C1: a PML region whose factors are not those of the current timestep (state Ready)
\* is found only before ComputePMLFactors has run for that timestep, and every PML
\* update ran with the factors of every region valid for the timestep of the update.
C1_UpdateOnlyWithValidFactors ==
    /\ (\E r \in Regions : ~FactorsValid(sigba[r], dt)) => phase \in {"construct", "factors"}
    /\ hist.pml.done => \A r \in Regions : hist.pml.valid[r]

\* a PML update was performed in a step that started with a change of dt
C1_Witness ==
    /\ hist.pml.done /\ hist.pml.afterChange
    /\ \A r \in Regions : hist.pml.valid[r]
    /\ phase = "halo"

\* C2: the coefficients of the algorithm are those InitializeSpectralCoefficients
\* computes for its timestep, a push leaves them so, and every push, also after a
\* change of dt, used the coefficients of the timestep current at the push.
C2_PushUsesCurrentCoefficients ==
    /\ phase # "construct" => psatd.coef = CoefFor(psatd.m_dt)
    /\ (solver = "PSATD" /\ \E t \in Threads : thr[t].pc = "update") => psatd.coef = CoefFor(dt)
    /\ hist.push.done => hist.push.current

\* a push was performed in a step that started with a change of dt
C2_Witness ==
    /\ hist.push.done /\ hist.push.afterChange /\ hist.push.current
    /\ phase = "pml"

\* C3: when the field update of a box starts, no deposition of the step is missing
\* from the shared arrays, and while the cycle is in the field update, the PML update
\* or the halo exchange no thread is in a deposition.
C3_UpdateAfterDeposition ==
    /\ \A k \in Tiles : hist.upd[k].done => hist.upd[k].missing = {}
    /\ phase \in FieldPhases =>
          /\ hist.dep = AllDeps(do_rho)
          /\ \A t \in Threads : thr[t].pc \notin DepositOps

\* a box was updated in a step in which charge and current were deposited, while
\* another thread had not started its update yet
C3_Witness ==
    /\ phase = "update" /\ do_rho /\ amp # 0
    /\ \E k \in Tiles : hist.upd[k].done
    /\ \E t \in Threads : thr[t].pc = "update"

\* C4: every gather read valid and guard data that hold the field update of the
\* previous step (as many updates as steps completed), and no gather is pending while
\* a halo exchange is in progress.
C4_GatherReadsExchangedHalo ==
    /\ \A k \in Tiles : hist.gath[k].done =>
          hist.gath[k].fieldLag = 0 /\ hist.gath[k].haloLag = 0
    /\ \A t \in Threads : thr[t].pc = "gather" =>
          /\ fieldGen[thr[t].tile] = istep /\ haloGen[thr[t].tile] = istep
          /\ \A u \in Threads : thr[u].pc # "fill"

\* a gather of a later step has just read its fields
C4_Witness ==
    /\ istep >= 1 /\ phase = "phys"
    /\ \E t \in Threads : thr[t].pc = "pushdep" /\ hist.gath[thr[t].tile].done

\* the contributions of the step, summed without reference to any order
RECURSIVE SumFields(_, _, _)
SumFields(f, S, D) ==
    IF S = {} THEN [x \in D |-> 0]
    ELSE LET k == CHOOSE j \in S : TRUE
             rest == SumFields(f, S \ {k}, D)
         IN [x \in D |-> f[k][x] + rest[x]]

TilePos(k, back) == [i \in 1..NpTile |-> lx[LIndex(k, i)] - back * uxp[LIndex(k, i)]]

ExpectedJ ==
    SumFields([k \in Tiles |->
                  [e \in Cells |-> DepositCurrentKernel(k, TilePos(k, 0), uxp)[e]
                                   + PhysCurrent(k, istep)[e]]], Tiles, Cells)

ExpectedRho(icomp) ==
    SumFields([k \in Tiles |->
                  [n \in Nodes |->
                      DepositChargeKernel(k, TilePos(k, 1 - icomp))[n]
                      + PhysCharge(k, IF icomp = 0 THEN POld(k, istep) ELSE PNew(k, istep))[n]]],
              Tiles, Nodes)

\* C5: once the deposition phase of a step has ended, every edge of jx and every node
\* of both components of rho holds the sum of the contributions of all particles of
\* all tiles, whatever the order in which the threads ran.
C5_DepositionSumsAllContributions ==
    phase \in FieldPhases =>
        /\ jx = ExpectedJ
        /\ do_rho => \A c \in 0..1 : rho[c] = ExpectedRho(c)

\* an edge received non-zero current from the antenna particles of two tiles
C5_Witness ==
    /\ phase = "update" /\ do_rho
    /\ \E e \in Cells, k1, k2 \in Tiles :
          /\ k1 # k2
          /\ DepositCurrentKernel(k1, TilePos(k1, 0), uxp)[e] # 0
          /\ DepositCurrentKernel(k2, TilePos(k2, 0), uxp)[e] # 0

OpsOf(ph) ==
    CASE ph = "phys"   -> {"gather", "pushdep"}
      [] ph = "laser"  -> {"getpos", "rho0", "accrho0", "push", "depJ", "accJ", "setpos",
                           "rho1", "accrho1"}
      [] ph = "update" -> {"update"}
      [] ph = "halo"   -> {"fill"}
      [] OTHER -> {}

\* C6: J and rho change only in the deposition phases (cleared at their start, then
\* added to), E and B only in the field update and its halo exchange; the threads at
\* work are all in the operations of the one phase in progress; and no thread reads
\* a part of the grid that an operation of another thread writes.
C6_PhasesDoNotOverlap ==
    /\ [](/\ \A t \in Threads : thr[t].pc # "done" => thr[t].pc \in OpsOf(phase)
          /\ \A t1, t2 \in Threads : t1 # t2 => Reads(t1) \cap Writes(t2) = {})
    /\ [][/\ (jx' # jx \/ rho' # rho) => phase \in {"begin", "phys", "laser"}
          /\ fieldGen' # fieldGen => phase = "update"
          /\ haloGen' # haloGen => phase = "halo"]_vars

\* two threads are updating their boxes at the same time
C6_Witness ==
    /\ phase = "update"
    /\ \E t1, t2 \in Threads : t1 # t2 /\ thr[t1].pc = "update" /\ thr[t2].pc = "update"

(***************************************************************************)
(* Properties of the scraper.                                              *)
(***************************************************************************)
Scraped(p) == scr.lev_min <= p.lev /\ p.lev <= scr.lev_max
InsideEB(p) == PhiValue(p, phi[p.lev]) < 0
Started == scr.pc # "idle"

\* C7: the callback is never invoked on a particle whose id is invalid: a particle
\* that was flagged for removal when the call started has no invocation, wherever
\* it is.
C7_NoCallbackOnInvalid ==
    Started =>
        /\ scr.onInvalid = {}
        /\ \A ip \in Parts : ~is_valid(scr.before[ip].idcpu) => scr.calls[ip] = 0

\* the call has returned, it passed over an invalid particle that lies inside the
\* boundary on a scraped level, and it invoked the callback on another particle
C7_Witness ==
    /\ scr.pc = "done"
    /\ \E ip \in Parts :
          /\ ~is_valid(scr.before[ip].idcpu) /\ InsideEB(pcl[ip]) /\ Scraped(pcl[ip])
          /\ ip \in scr.visited
    /\ \E ip \in Parts : scr.calls[ip] = 1

FrameOfCallbacks ==
    /\ scr.f = "NoOp" => pcl = scr.before
    /\ \A ip \in Parts :
          /\ pcl[ip] = [scr.before[ip] EXCEPT !.idcpu = pcl[ip].idcpu]
          /\ IdOf(pcl[ip].idcpu) = IdOf(scr.before[ip].idcpu)
          /\ CpuOf(pcl[ip].idcpu) = CpuOf(scr.before[ip].idcpu)
          /\ scr.calls[ip] = 0 => pcl[ip] = scr.before[ip]
          /\ (scr.f = "Absorb" /\ scr.calls[ip] > 0) => ~is_valid(pcl[ip].idcpu)

\* C9 as stated: after a call with Absorb every valid particle that was inside the
\* boundary is invalid, on whatever level it is
C9_AsStated ==
    Started =>
        /\ FrameOfCallbacks
        /\ (scr.pc = "done" /\ scr.f = "Absorb") =>
              \A ip \in Parts :
                  /\ (is_valid(scr.before[ip].idcpu) /\ InsideEB(scr.before[ip]))
                        => ~is_valid(pcl[ip].idcpu)
                  /\ ~InsideEB(scr.before[ip]) => pcl[ip] = scr.before[ip]

\* C9: Absorb clears the valid flag of the particle it is invoked on and changes
\* nothing else, NoOp changes nothing; after a call with Absorb every valid particle
\* that was inside the boundary on a level of lev_min..lev_max is invalid, and every
\* particle outside the boundary or on another level is unchanged.
C9_AbsorbInvalidatesScraped ==
    Started =>
        /\ FrameOfCallbacks
        /\ (scr.pc = "done" /\ scr.f = "Absorb") =>
              \A ip \in Parts :
                  /\ (is_valid(scr.before[ip].idcpu) /\ InsideEB(scr.before[ip])
                      /\ Scraped(scr.before[ip]))
                        => ~is_valid(pcl[ip].idcpu)
                  /\ (~InsideEB(scr.before[ip]) \/ ~Scraped(scr.before[ip]))
                        => pcl[ip] = scr.before[ip]

\* a call with Absorb has returned: it invalidated a particle inside the boundary and
\* left a valid particle outside it as it was
C9_Witness ==
    /\ scr.pc = "done" /\ scr.f = "Absorb"
    /\ \E ip \in Parts :
          /\ is_valid(scr.before[ip].idcpu) /\ InsideEB(scr.before[ip])
          /\ ~is_valid(pcl[ip].idcpu)
    /\ \E ip \in Parts :
          /\ is_valid(pcl[ip].idcpu) /\ ~InsideEB(pcl[ip]) /\ Scraped(pcl[ip])

(***************************************************************************)
(* Properties of the pair-generation pass.                                 *)
(***************************************************************************)
\* C10: the filter selects a photon if and only if its optical depth is below zero;
\* a photon the transform was applied to has the invalid idcpu; when the pass has
\* returned every selected photon is invalid and the idcpu of every other photon is
\* the one it had.
C10_PairGenerationInvalidatesSelected ==
    qed.pc # "idle" =>
        /\ \A i \in qed.filtered :
              (qed.mask[i] = 1 <=> qed.before[i].opt_depth < 0)
        /\ \A i \in qed.moved :
              pho[i].idcpu = ParticleIdCpus_Invalid /\ ~is_valid(pho[i].idcpu)
        /\ qed.pc = "done" =>
              \A i \in Phots :
                  IF qed.before[i].opt_depth < 0
                  THEN ~is_valid(pho[i].idcpu)
                  ELSE pho[i].idcpu = qed.before[i].idcpu

\* the pass has returned: it destroyed a valid photon of negative optical depth and
\* kept a valid photon of optical depth zero
C10_Witness ==
    /\ qed.pc = "done"
    /\ \E i \in Phots :
          /\ qed.before[i].opt_depth < 0 /\ is_valid(qed.before[i].idcpu)
          /\ ~is_valid(pho[i].idcpu)
    /\ \E i \in Phots :
          /\ qed.before[i].opt_depth = 0 /\ is_valid(pho[i].idcpu)

(***************************************************************************)
(* Properties of the photon emission pass.                                 *)
(***************************************************************************)
\* C11: the transform leaves the idcpu of every source particle as it was (a valid
\* emitter stays valid); after an emission the optical depth of the emitter is the
\* value just drawn from the optical-depth functor, and when that value is not
\* negative the filter returns false for the emitter.
C11_EmissionKeepsIdResetsDepth ==
    call.fn = "emit" =>
        /\ \A i \in 1..NSrc : call.src[i].idcpu = call.src0[i].idcpu
        /\ \A i \in call.moved :
              /\ is_valid(call.src0[i].idcpu) => is_valid(call.src[i].idcpu)
              /\ call.src[i].opt_depth = call.fresh[i]
              /\ call.fresh[i] >= 0 => ~PhotonEmissionFilterFunc(call.src, i)

\* a valid particle has emitted, drew the optical depth zero and is no longer selected,
\* and another one drew a negative optical depth
C11_Witness ==
    /\ call.fn = "emit"
    /\ \E i \in call.moved :
          /\ is_valid(call.src[i].idcpu) /\ call.src0[i].opt_depth < 0
          /\ call.fresh[i] = 0 /\ ~PhotonEmissionFilterFunc(call.src, i)
    /\ \E i \in call.moved : call.fresh[i] < 0

\* C12: when cleanLowEnergyPhotons has returned, the photons at the indices
\* old_size .. old_size+num_added-1 whose squared energy is below the larger of the
\* squared threshold and the smallest positive real have the invalid idcpu and nothing
\* else is changed; an added photon of zero energy is removed whatever the threshold;
\* no particle below old_size is modified.
C12_CleanRemovesLowEnergyAdded ==
    (call.fn = "emit" /\ call.pc = "clean" /\ call.cleaned = 0..(call.num_added - 1)) =>
        /\ Len(call.dst) = Len(call.dst0)
        /\ \A n \in 1..Len(call.dst) :
              LET p == call.dst0[n]
                  th2 == call.energy_threshold * call.energy_threshold
                  added == call.old_size <= n - 1 /\ n - 1 < call.old_size + call.num_added
                  low == (p.ux * p.ux + p.uy * p.uy + p.uz * p.uz) * me_c * me_c
                            < (IF th2 >= RealMin THEN th2 ELSE RealMin)
              IN /\ call.dst[n] = IF added /\ low
                                  THEN [p EXCEPT !.idcpu = ParticleIdCpus_Invalid]
                                  ELSE p
                 /\ (added /\ p.ux = 0 /\ p.uy = 0 /\ p.uz = 0)
                       => ~is_valid(call.dst[n].idcpu)
                 /\ n - 1 < call.old_size => call.dst[n] = p

\* with threshold zero, an added photon of zero energy was removed, an added photon of
\* positive energy was kept, and the older photon of zero energy was not touched
C12_Witness ==
    /\ call.fn = "emit" /\ call.pc = "clean" /\ call.cleaned = 0..(call.num_added - 1)
    /\ call.energy_threshold = 0 /\ call.old_size = 1 /\ call.num_added = 2
    /\ \E n \in 2..3 : call.dst0[n].ux = 0 /\ is_valid(call.dst0[n].idcpu)
                       /\ ~is_valid(call.dst[n].idcpu)
    /\ \E n \in 2..3 : call.dst[n].ux > 0 /\ is_valid(call.dst[n].idcpu)
    /\ call.dst[1].ux = 0 /\ is_valid(call.dst[1].idcpu)

(***************************************************************************)
(* Properties of SplitAndScatterFunc.                                      *)
(***************************************************************************)
\* C13: when SplitAndScatterFunc returns, the number it reports for every product
\* species is the number of pairs with a non-zero mask times the products of that
\* species per collision, and the product tile of the species holds products_np plus
\* that many particles; with n_total_pairs = 0 it reports zeros and the tiles are as
\* they were.
C13_SplitAddsProductsPerCollidingPair ==
    (call.fn = "split" /\ call.pc = "returned") =>
        LET pairs == Cardinality({i \in 1..call.n_total_pairs : call.mask[i] # 0})
        IN \A s \in 1..m_num_product_species :
              /\ call.ret[s] = pairs * call.m_num_products[s]
              /\ Len(call.tile_products[s]) = call.products_np[s] + call.ret[s]
              /\ call.n_total_pairs = 0 =>
                    /\ call.ret[s] = 0
                    /\ call.tile_products[s] = [k \in 1..call.products_np[s] |-> 1]

\* a call has returned for two colliding pairs, one of them of a process other than the
\* first, with tiles that were not empty and two products per collision
C13_Witness ==
    /\ call.fn = "split" /\ call.pc = "returned"
    /\ call.n_total_pairs = 2 /\ call.mask[1] = 2 /\ call.mask[2] = 1
    /\ call.products_np[1] = 1 /\ call.m_num_products[1] = 2
    /\ call.ret[1] = 4 /\ Len(call.tile_products[1]) = 5

C15_CallsCoverLargerGroupOnce ==
    call.fn = "perez" =>
        LET NI1 == call.I1e - call.I1s
            NI2 == call.I2e - call.I2s
            max_N == IF NI1 >= NI2 THEN NI1 ELSE NI2
            min_N == IF NI1 <= NI2 THEN NI1 ELSE NI2
            lo == max_N \div min_N
            hi == (max_N + min_N - 1) \div min_N
            ok(cnt, Is, Ie, NI) ==
                \A p \in DOMAIN cnt :
                    IF p < Is THEN cnt[p] = 0
                    ELSE IF NI = max_N THEN cnt[p] = 1
                    ELSE cnt[p] \in {lo, hi}
        IN /\ call.pc = "loop" =>
                 /\ call.k >= call.coll_idx
                 /\ (call.k - call.coll_idx) % min_N = 0
                 /\ call.k < max_N + min_N
           /\ (call.pc = "idle" /\ call.called = 0..(min_N - 1)) =>
                 /\ call.collisions = max_N
                 /\ ok(call.count1, call.I1s, call.I1e, NI1)
                 /\ ok(call.count2, call.I2s, call.I2e, NI2)

\* all calls have returned for a group of three and a group of two: three collisions,
\* one particle of the smaller group in two of them and the other in one
C15_Witness ==
    /\ call.fn = "perez" /\ call.pc = "idle" /\ call.called = 0..1
    /\ call.I1e - call.I1s = 3 /\ call.I2e - call.I2s = 2
    /\ call.collisions = 3
    /\ {call.count2[p] : p \in call.I2s..(call.I2e - 1)} = {1, 2}
    /\ \A p \in call.I1s..(call.I1e - 1) : call.count1[p] = 1

C17_BoostCheckRejectsOtherDirections ==
    (call.fn = "laser" /\ call.pc # "enter" /\ call.gamma_boost > 1) =>
        IF call.nvec = call.boost_direction
        THEN call.message # "The Lorentz boost should be in the same direction as the laser propagation"
        ELSE /\ call.pc = "aborted"
             /\ call.message = "The Lorentz boost should be in the same direction as the laser propagation"

(***************************************************************************)
(* Properties of the step cycle with fatal errors.                         *)
(***************************************************************************)
\* C18: a step runs through all its phases or the run aborts. The step counter advances
\* only when every box was gathered, deposited, updated and exchanged in the step and
\* the PML was updated; a step starts only with every box holding exactly the updates
\* of the completed steps; and after an abort nothing runs any more: no retry, no later
\* step.
C18_StepCompletesOrRunAborts ==
    [][ /\ phase # "aborted"
        /\ istep' # istep =>
              /\ istep' = istep + 1 /\ phase = "stepend"
              /\ \A k \in Tiles : /\ hist.gath[k].done /\ hist.upd[k].done
                                  /\ fieldGen[k] = istep + 1 /\ haloGen[k] = istep + 1
              /\ hist.pml.done /\ AllDeps(do_rho) \subseteq hist.dep
        /\ (phase = "begin" /\ phase' # "begin") =>
              /\ phase' = "phys"
              /\ \A k \in Tiles : fieldGen[k] = istep /\ haloGen[k] = istep
              /\ hist.dep = {} /\ \A k \in Tiles : ~hist.gath[k].done /\ ~hist.upd[k].done
        /\ phase' = "begin" => phase \in {"factors", "coefs", "stepend"}
      ]_vars

\* the run has aborted in its second step or later, after the field update and before
\* the exchange: the step is left partially completed
C18_Witness ==
    /\ phase = "aborted" /\ istep >= 1
    /\ \A k \in Tiles : fieldGen[k] = istep + 1 /\ haloGen[k] = istep

(***************************************************************************)
(* Charge conservation of the deposition.                                  *)
(***************************************************************************)
\* C19: when the deposition of a step with charge deposition has ended, the divergence
\* of J plus the change of rho over the step is zero at every node (J holds the current
\* times dt / dx: a weight times a displacement in cells; no particle of the model
\* leaves the domain, and an edge beyond the last node carries no current).
C19_ContinuityAtEveryNode ==
    (phase \in FieldPhases /\ do_rho) =>
        \A n \in Nodes :
            (IF n \in Cells THEN jx[n] ELSE 0) - (IF n - 1 \in Cells THEN jx[n - 1] ELSE 0)
                + rho[1][n] - rho[0][n] = 0

\* a step after the first has deposited a current that is not zero and a charge that
\* changed at some node
C19_Witness ==
    /\ phase = "update" /\ do_rho /\ istep >= 1
    /\ \E e \in Cells : jx[e] # 0
    /\ \E n \in Nodes : rho[1][n] # rho[0][n]
    /\ \E p \in LParts : uxp[p] # 0

C22_TileOrderOfEvolve ==
    [][ phase = "laser" =>
          \A t \in Threads :
              LET k == thr[t].tile
                  s == ThreadNum(t)
                  a == thr[t].pc
                  b == thr'[t].pc
                  same == thr'[t].tile = k
                  pre == \A i \in 1..NpTile : m_xp'[s][i] = lx'[LIndex(k, i)]
                  pushed == \A i \in 1..NpTile :
                                /\ uxp'[LIndex(k, i)] = amp * LW(LIndex(k, i))
                                /\ m_xp'[s][i] = lx'[LIndex(k, i)] + uxp'[LIndex(k, i)]
                  written == \A i \in 1..NpTile :
                                /\ uxp'[LIndex(k, i)] = amp * LW(LIndex(k, i))
                                /\ m_xp'[s][i] = lx'[LIndex(k, i)]
              IN thr'[t] # thr[t] =>
                    CASE a = "getpos" ->
                             same /\ b = (IF do_rho THEN "rho0" ELSE "push") /\ pre
                      [] a = "rho0" -> same /\ b = "accrho0" /\ pre
                      [] a = "accrho0" ->
                             /\ same /\ b = "push" /\ pre
                             /\ <<"J", k>> \notin hist'.dep /\ <<"rho0", k>> \in hist'.dep
                      [] a = "push" -> same /\ b = "depJ" /\ pushed
                      [] a = "depJ" -> same /\ b = "accJ" /\ pushed
                      [] a = "accJ" ->
                             /\ same /\ b = "setpos" /\ pushed
                             /\ <<"J", k>> \in hist'.dep /\ <<"rho1", k>> \notin hist'.dep
                             /\ do_rho => <<"rho0", k>> \in hist'.dep
                      [] a = "setpos" ->
                             /\ written
                             /\ IF do_rho THEN same /\ b = "rho1"
                                ELSE thr'[t] = FinishTile(t, k, "getpos")
                      [] a = "rho1" -> same /\ b = "accrho1" /\ written
                      [] a = "accrho1" ->
                             /\ thr'[t] = FinishTile(t, k, "getpos")
                             /\ {<<"rho0", k>>, <<"J", k>>, <<"rho1", k>>} \subseteq hist'.dep
                      [] a = "done" -> phase' = "update"
                      [] OTHER -> FALSE
      ]_vars

\* a thread has added the current of a tile, from positions that the push
\* moved, after the first charge of the tile and before the second
C22_Witness ==
    /\ phase = "laser" /\ do_rho /\ amp # 0
    /\ \E t \in Threads :
          LET k == thr[t].tile
              s == ThreadNum(t)
          IN /\ thr[t].pc = "setpos"
             /\ <<"rho0", k>> \in hist.dep /\ <<"J", k>> \in hist.dep
             /\ <<"rho1", k>> \notin hist.dep
             /\ \E i \in 1..NpTile : m_xp[s][i] # lx[LIndex(k, i)]
             /\ \E e \in Cells : local_jx[s][e] # 0

====
